---- MODULE Spec2Model ----
(***************************************************************************)
(* Model of the one-frame-video-conv App component: the upload handler     *)
(* (handleFileUpload), the two per-file conversion strategies              *)
(* (convertImageToMP4, convertImageToVideo), the target-size computation   *)
(* of the MP4 path and the derivation of the output file name.             *)
(***************************************************************************)
EXTENDS Integers, Sequences, FiniteSets, TLC

VARIABLES
    strategy,      \* which variant of the component is built: "mp4" or "webm"
    nUploads,      \* number of upload events (onChange / onDrop) received
    files,         \* files[u]: the file list of upload u, a sequence of file kinds
    pc,            \* pc[u]: position of the handleFileUpload invocation u
    idx,           \* idx[u]: 1-based position of the file being converted
    conv,          \* conv[u]: stage of the conversion that upload u awaits
    promise,       \* promise[u]: state of the promise upload u awaits
    newVideos,     \* newVideos[u]: the local array of invocation u
    videos,        \* React state: the result list
    isProcessing,  \* React state: the loading indicator flag
    canvas,        \* the file last drawn on the shared <canvas> (canvasRef)
    imgW, imgH,    \* img.width, img.height of the decoded image
    width, height, \* the target size computed by convertImageToMP4
    sizePc,        \* position in the size computation
    fileName,      \* file.name, a sequence of characters
    outName,       \* the name of the produced record
    namePc         \* position in the name derivation

vars == <<strategy, nUploads, files, pc, idx, conv, promise, newVideos, videos,
          isProcessing, canvas, imgW, imgH, width, height, sizePc,
          fileName, outName, namePc>>

uploadVars == <<strategy, nUploads, files, pc, idx, conv, promise, newVideos,
                videos, isProcessing, canvas>>
sizeVars == <<imgW, imgH, width, height, sizePc>>
nameVars == <<fileName, outName, namePc>>

--------------------------------------------------------------------------
(* Bounds *)

MaxDim == 1300
MaxNameLen == 4
MaxUploads == 2
MaxFiles == 3

(* Image edges beyond the exhaustive range, reaching the ratios at which the
   scaled short edge rounds to 0, 1 and 2. *)
LargeDims == {1920, 2559, 2560, 2561, 3840, 5119, 5120, 5121}

Dims == (1..MaxDim) \cup LargeDims

--------------------------------------------------------------------------
(* Target size of the MP4 path *)

MAX_SIZE == 1280

Max(a, b) == IF a >= b THEN a ELSE b

Abs(a) == IF a >= 0 THEN a ELSE 0 - a

(* Math.round(num / den) for num >= 0, den > 0: the nearest integer, a tie
   going up. *)
Round(num, den) == (2 * num + den) \div (2 * den)

ClampBothOver(w, h) ==
    IF w > MAX_SIZE /\ h > MAX_SIZE
    THEN IF w > h
         THEN <<MAX_SIZE, Round(h * MAX_SIZE, w)>>
         ELSE <<Round(w * MAX_SIZE, h), MAX_SIZE>>
    ELSE <<w, h>>

ClampNoAspect(w, h) ==
    IF w > MAX_SIZE \/ h > MAX_SIZE
    THEN IF w > h
         THEN <<MAX_SIZE, h>>
         ELSE <<w, MAX_SIZE>>
    ELSE <<w, h>>

(* Step 1: fit the long edge into MAX_SIZE. *)
Clamp(w, h) ==
    IF w > MAX_SIZE \/ h > MAX_SIZE
    THEN IF w > h
         THEN <<MAX_SIZE, Round(h * MAX_SIZE, w)>>
         ELSE <<Round(w * MAX_SIZE, h), MAX_SIZE>>
    ELSE <<w, h>>

(* Step 2: force a dimension even. *)
ToEven(n) == IF n % 2 = 0 THEN n ELSE n - 1

TargetSize(w, h) ==
    LET c == Clamp(w, h)
    IN  <<ToEven(c[1]), ToEven(c[2])>>

--------------------------------------------------------------------------
(* Output name *)

Chars == {"a", ".", "/"}

Names == UNION {[1..n -> Chars] : n \in 0..MaxNameLen}

EXT_MP4 == <<".", "m", "p", "4">>
EXT_WEBM == <<".", "w", "e", "b", "m">>

Extension(s) == IF s = "mp4" THEN EXT_MP4 ELSE EXT_WEBM

MatchStartsStar(name) ==
    {i \in 1..Len(name) :
        /\ name[i] = "."
        /\ \A j \in (i + 1)..Len(name) : name[j] \notin {"/", "."}}

(* The positions at which /\.[^/.]+$/ matches: a '.', then one or more
   characters other than '/' and '.', up to the end of the string. *)
MatchStarts(name) ==
    {i \in 1..Len(name) :
        /\ name[i] = "."
        /\ i + 1 <= Len(name)
        /\ \A j \in (i + 1)..Len(name) : name[j] \notin {"/", "."}}

Min(S) == CHOOSE x \in S : \A y \in S : x <= y

(* name.replace(/\.[^/.]+$/, ""): the leftmost match, if any, is removed. *)
StripExtension(name) ==
    IF MatchStarts(name) = {}
    THEN name
    ELSE SubSeq(name, 1, Min(MatchStarts(name)) - 1)

RecordName(name, s) == StripExtension(name) \o Extension(s)

--------------------------------------------------------------------------
(* The upload state machine *)

Uploads == 1..MaxUploads

(* What the browser will do with a file: "ok" decodes and encodes, "corrupt"
   fails to decode (img.onerror), "encfail" decodes but cannot be encoded. *)
Kinds == {"ok", "corrupt", "encfail"}

FileLists == UNION {[1..n -> Kinds] : n \in 0..MaxFiles}

(* A ConvertedVideo: id and url are unique to the conversion that made it,
   so a record is identified by the upload and the position of its file. *)
Record(u, i) == [upload |-> u, pos |-> i]

NoCanvas == <<0, 0>>

RECURSIVE SumLen(_, _)
SumLen(f, n) == IF n = 0 THEN 0 ELSE Len(f[n]) + SumLen(f, n - 1)

(* The number of files handed over by all uploads so far *)
TotalFiles == SumLen(files, MaxUploads)

UploadIdle ==
    /\ nUploads = 0
    /\ files = [u \in Uploads |-> <<>>]
    /\ pc = [u \in Uploads |-> "idle"]
    /\ idx = [u \in Uploads |-> 0]
    /\ conv = [u \in Uploads |-> "none"]
    /\ promise = [u \in Uploads |-> "none"]
    /\ newVideos = [u \in Uploads |-> <<>>]
    /\ videos = <<>>
    /\ isProcessing = FALSE
    /\ canvas = NoCanvas

SizeIdle ==
    /\ imgW = 1
    /\ imgH = 1
    /\ width = 0
    /\ height = 0
    /\ sizePc = "off"

NameIdle ==
    /\ fileName = <<>>
    /\ outName = <<>>
    /\ namePc = "off"

--------------------------------------------------------------------------
(* handleFileUpload and the events of the conversion it awaits *)

CommitAppend(nv, prev) == prev \o nv

CommitReplace(nv, prev) == nv

(* setVideos((prev) => [...newVideos, ...prev]) *)
Commit(nv, prev) == nv \o prev

PushFront(nv, r) == <<r>> \o nv

(* newVideos.push(video) *)
Push(nv, r) == Append(nv, r)

(* The call convertImageToMP4(file) / convertImageToVideo(file) for the file
   at position i of upload u: a new pending promise, the image set loading. *)
StartConversion(u, i) ==
    /\ idx' = [idx EXCEPT ![u] = i]
    /\ conv' = [conv EXCEPT ![u] = "loading"]
    /\ promise' = [promise EXCEPT ![u] = "pending"]
    /\ pc' = [pc EXCEPT ![u] = "awaiting"]

(* An upload event (onChange of the file input, or onDrop): a new invocation
   of handleFileUpload, run up to its first await or, for an empty list, to
   its end.  Both callers pass a FileList (input.files of a file input and
   dataTransfer.files are never null), so the early return is not taken. *)
Upload(fl) ==
    /\ nUploads < MaxUploads
    /\ TotalFiles + Len(fl) <= MaxFiles
    /\ LET u == nUploads + 1
       IN  /\ nUploads' = u
           /\ files' = [files EXCEPT ![u] = fl]
           /\ newVideos' = [newVideos EXCEPT ![u] = <<>>]
           /\ IF Len(fl) = 0
              THEN /\ videos' = Commit(<<>>, videos)
                   /\ isProcessing' = FALSE
                   /\ pc' = [pc EXCEPT ![u] = "done"]
                   /\ UNCHANGED <<idx, conv, promise>>
              ELSE /\ isProcessing' = TRUE
                   /\ StartConversion(u, 1)
                   /\ UNCHANGED videos
    /\ UNCHANGED <<strategy, canvas>>
    /\ UNCHANGED sizeVars
    /\ UNCHANGED nameVars

Awaiting(u) == pc[u] = "awaiting"

Kind(u) == files[u][idx[u]]

(* resolve(record) and the continuation of handleFileUpload behind the
   await: the record is pushed, then either the next file's conversion is
   started or the loop ends and the upload commits. *)
Resolve(u) ==
    LET nv == Push(newVideos[u], Record(u, idx[u]))
    IN  /\ newVideos' = [newVideos EXCEPT ![u] = nv]
        /\ IF idx[u] < Len(files[u])
           THEN /\ StartConversion(u, idx[u] + 1)
                /\ UNCHANGED <<videos, isProcessing>>
           ELSE /\ videos' = Commit(nv, videos)
                /\ isProcessing' = FALSE
                /\ pc' = [pc EXCEPT ![u] = "done"]
                /\ promise' = [promise EXCEPT ![u] = "fulfilled"]
                /\ conv' = [conv EXCEPT ![u] = "none"]
                /\ UNCHANGED idx

RejectAndReset(u) ==
    /\ promise' = [promise EXCEPT ![u] = "rejected"]
    /\ pc' = [pc EXCEPT ![u] = "failed"]
    /\ conv' = [conv EXCEPT ![u] = "none"]
    /\ isProcessing' = FALSE
    /\ UNCHANGED <<idx, newVideos, videos>>

(* reject(err): the await in handleFileUpload throws, nothing catches it and
   the invocation ends there. *)
Reject(u) ==
    /\ promise' = [promise EXCEPT ![u] = "rejected"]
    /\ pc' = [pc EXCEPT ![u] = "failed"]
    /\ conv' = [conv EXCEPT ![u] = "none"]
    /\ UNCHANGED <<idx, newVideos, videos, isProcessing>>

(* Neither resolve nor reject is ever called: the promise stays pending. *)
Stuck(u) ==
    /\ conv' = [conv EXCEPT ![u] = "stuck"]
    /\ UNCHANGED <<pc, idx, promise, newVideos, videos, isProcessing>>

(* img.onload *)
ImgLoad(u) ==
    /\ Awaiting(u)
    /\ conv[u] = "loading"
    /\ Kind(u) \in {"ok", "encfail"}
    /\ IF strategy = "mp4"
       THEN /\ \/ /\ conv' = [conv EXCEPT ![u] = "encoding"]
                  /\ UNCHANGED <<pc, idx, promise, newVideos, videos,
                                 isProcessing>>
               \/ /\ Kind(u) = "encfail"
                  /\ Reject(u)
            /\ UNCHANGED canvas
       ELSE /\ canvas' = <<u, idx[u]>>
            /\ IF Kind(u) = "ok"
               THEN /\ conv' = [conv EXCEPT ![u] = "recording"]
                    /\ UNCHANGED <<pc, idx, promise, newVideos, videos,
                                   isProcessing>>
               ELSE Stuck(u)
    /\ UNCHANGED <<strategy, nUploads, files>>
    /\ UNCHANGED sizeVars
    /\ UNCHANGED nameVars

(* The error event of the image *)
ImgError(u) ==
    /\ Awaiting(u)
    /\ conv[u] = "loading"
    /\ Kind(u) = "corrupt"
    /\ IF strategy = "mp4"
       THEN Reject(u)
       ELSE Stuck(u)
    /\ UNCHANGED <<strategy, nUploads, files, canvas>>
    /\ UNCHANGED sizeVars
    /\ UNCHANGED nameVars

(* await encoder.flush() returns; muxer.finalize(); resolve(...) *)
FlushDone(u) ==
    /\ Awaiting(u)
    /\ strategy = "mp4"
    /\ conv[u] = "encoding"
    /\ Kind(u) = "ok"
    /\ Resolve(u)
    /\ UNCHANGED <<strategy, nUploads, files, canvas>>
    /\ UNCHANGED sizeVars
    /\ UNCHANGED nameVars

(* The encoder's error callback, or flush() rejecting into the catch *)
EncoderError(u) ==
    /\ Awaiting(u)
    /\ strategy = "mp4"
    /\ conv[u] = "encoding"
    /\ Kind(u) = "encfail"
    /\ Reject(u)
    /\ UNCHANGED <<strategy, nUploads, files, canvas>>
    /\ UNCHANGED sizeVars
    /\ UNCHANGED nameVars

(* The one-second timer: recorder.stop(), then recorder.onstop *)
TimerStop(u) ==
    /\ Awaiting(u)
    /\ strategy = "webm"
    /\ conv[u] = "recording"
    /\ Resolve(u)
    /\ UNCHANGED <<strategy, nUploads, files, canvas>>
    /\ UNCHANGED sizeVars
    /\ UNCHANGED nameVars

Init ==
    /\ strategy \in {"mp4", "webm"}
    /\ UploadIdle
    /\ SizeIdle
    /\ NameIdle

Next ==
    \/ \E fl \in FileLists : Upload(fl)
    \/ \E u \in Uploads : ImgLoad(u)
    \/ \E u \in Uploads : ImgError(u)
    \/ \E u \in Uploads : FlushDone(u)
    \/ \E u \in Uploads : EncoderError(u)
    \/ \E u \in Uploads : TimerStop(u)

Spec == Init /\ [][Next]_vars

(* The browser delivers every pending load and error event, every timer and
   every promise settlement; only the user's uploads are not forced. *)
Fairness ==
    \A u \in Uploads :
        /\ WF_vars(ImgLoad(u))
        /\ WF_vars(ImgError(u))
        /\ WF_vars(FlushDone(u))
        /\ WF_vars(EncoderError(u))
        /\ WF_vars(TimerStop(u))

FairSpec == Init /\ [][Next]_vars /\ Fairness

--------------------------------------------------------------------------
(* Specification of the size computation: img.onload of convertImageToMP4 *)

InitSize ==
    /\ strategy = "mp4"
    /\ UploadIdle
    /\ NameIdle
    /\ imgW \in Dims
    /\ imgH \in Dims
    /\ width = 0
    /\ height = 0
    /\ sizePc = "loaded"

ComputeSize ==
    /\ sizePc = "loaded"
    /\ width' = TargetSize(imgW, imgH)[1]
    /\ height' = TargetSize(imgW, imgH)[2]
    /\ sizePc' = "sized"
    /\ UNCHANGED <<imgW, imgH>>
    /\ UNCHANGED uploadVars
    /\ UNCHANGED nameVars

NextSize == ComputeSize

SpecSize == InitSize /\ [][NextSize]_vars

--------------------------------------------------------------------------
(* Specification of the name derivation: the resolve() of both strategies *)

InitName ==
    /\ strategy \in {"mp4", "webm"}
    /\ UploadIdle
    /\ SizeIdle
    /\ fileName \in Names
    /\ outName = <<>>
    /\ namePc = "converting"

ResolveName ==
    /\ namePc = "converting"
    /\ outName' = RecordName(fileName, strategy)
    /\ namePc' = "resolved"
    /\ UNCHANGED <<fileName>>
    /\ UNCHANGED uploadVars
    /\ UNCHANGED sizeVars

NextName == ResolveName

SpecName == InitName /\ [][NextName]_vars

--------------------------------------------------------------------------
(* Properties of the target size *)

Sized == sizePc = "sized"

(* C2: the target width and height are both even and the larger of the two
   is at most 1280. *)
C2_EvenAndBounded ==
    Sized => /\ width % 2 = 0
             /\ height % 2 = 0
             /\ Max(width, height) <= MAX_SIZE

C2_Witness ==
    /\ Sized
    /\ imgW > MAX_SIZE
    /\ imgH % 2 = 1
    /\ imgH < imgW
    /\ width = MAX_SIZE
    /\ height > 0

(* |target * m - src * 1280| < 2 * m, i.e. |target - src * 1280 / m| < 2 *)
NearScaled(target, src, m) == Abs(target * m - src * MAX_SIZE) < 2 * m

(* C3: with s = min(1, 1280 / max(w, h)) the target width is less than 2
   away from w * s and the target height less than 2 away from h * s; an
   image whose edges are both at most 1280 is never enlarged. *)
C3_AspectPreserved ==
    Sized =>
        LET m == Max(imgW, imgH)
        IN  IF m <= MAX_SIZE
            THEN /\ Abs(width - imgW) < 2
                 /\ Abs(height - imgH) < 2
                 /\ width <= imgW
                 /\ height <= imgH
            ELSE /\ NearScaled(width, imgW, m)
                 /\ NearScaled(height, imgH, m)

C3_Witness ==
    /\ Sized
    /\ imgH > MAX_SIZE
    /\ imgW < imgH
    /\ imgW > 1
    /\ height = MAX_SIZE
    /\ width * imgH # imgW * MAX_SIZE

(* C10: the target width and height are both at least 2. *)
C10_PositiveSize ==
    Sized => /\ width >= 2
             /\ height >= 2

--------------------------------------------------------------------------
(* Properties of the output name *)

Resolved == namePc = "resolved"

Dots(name) == {i \in 1..Len(name) : name[i] = "."}

LastDot(name) == CHOOSE i \in Dots(name) : \A j \in Dots(name) : j <= i

(* The name with its last '.' and every character after it removed. *)
CutAtLastDot(name) ==
    IF Dots(name) = {} THEN name ELSE SubSeq(name, 1, LastDot(name) - 1)

(* C4 as stated: the record's name is the source name cut at its last '.',
   whatever follows that '.', followed by the new extension. *)
C4_NameCutAtLastDot ==
    Resolved => outName = CutAtLastDot(fileName) \o Extension(strategy)

(* The last '.' starts an extension: at least one character follows it and
   none of them is '/'. *)
HasExtension(name) ==
    /\ Dots(name) # {}
    /\ LastDot(name) < Len(name)
    /\ \A j \in (LastDot(name) + 1)..Len(name) : name[j] # "/"

(* C4 amended: the source name is cut at its last '.' only when at least one
   character follows that '.' and none of the following characters is '/';
   otherwise the source name is kept whole. *)
C4_NameExtensionReplaced ==
    Resolved =>
        outName = (IF HasExtension(fileName)
                   THEN CutAtLastDot(fileName)
                   ELSE fileName) \o Extension(strategy)

C4_Witness ==
    /\ Resolved
    /\ HasExtension(fileName)
    /\ Cardinality(Dots(fileName)) >= 2
    /\ Len(outName) = Len(fileName) - 2 + Len(Extension(strategy))

--------------------------------------------------------------------------
(* Properties of the upload state machine *)

Started(u) == pc[u] # "idle"

(* The records of the files of upload u, in file-list order *)
RecordsOf(u) == [i \in 1..Len(files[u]) |-> Record(u, i)]

(* The step in which upload u commits *)
Commits(u) == pc[u] # "done" /\ pc'[u] = "done"

(* C1: when an upload of N files commits, the result list becomes the N new
   records in file-list order followed by the list as it was just before. *)
C1_CommitPrepends ==
    [][\A u \in Uploads :
          Commits(u) => /\ videos' = RecordsOf(u)' \o videos
                        /\ Len(videos') = Len(videos) + Len(files'[u])]_vars

C1_Witness ==
    \E u \in Uploads :
        /\ pc[u] = "done"
        /\ Len(files[u]) >= 2
        /\ Len(videos) > Len(files[u])
        /\ SubSeq(videos, 1, Len(files[u])) = RecordsOf(u)

InProgress == {u \in Uploads : promise[u] = "pending"}

(* C5: at most one conversion is in progress at any time, and the shared
   canvas shows the file being recorded for as long as its recording runs. *)
C5_OneConversionAtATime ==
    /\ Cardinality(InProgress) <= 1
    /\ \A u \in Uploads : conv[u] = "recording" => canvas = <<u, idx[u]>>

(* The error event of the image of the file that upload u converts has been
   delivered. *)
DecodeFailed(u) ==
    /\ Started(u)
    /\ idx[u] >= 1
    /\ Kind(u) = "corrupt"
    /\ conv[u] # "loading"

(* C6: in both strategies a file whose image cannot be decoded has its
   conversion promise rejected. *)
C6_DecodeErrorRejects ==
    \A u \in Uploads : DecodeFailed(u) => promise[u] = "rejected"

(* The records made before the conversion of the file at position idx[u] *)
EarlierRecords(u) == [i \in 1..(idx[u] - 1) |-> Record(u, i)]

(* C7: while the k-th file of an upload is being converted, and after its
   conversion has failed, the local array holds exactly the records of files
   1..k-1 in file-list order; a record once made is never changed. *)
C7_EarlierFilesIntact ==
    /\ [](\A u \in Uploads :
            pc[u] \in {"awaiting", "failed"} => newVideos[u] = EarlierRecords(u))
    /\ [][\A u \in Uploads :
            /\ Len(newVideos'[u]) >= Len(newVideos[u])
            /\ SubSeq(newVideos'[u], 1, Len(newVideos[u])) = newVideos[u]]_vars

C7_Witness ==
    \E u \in Uploads :
        /\ pc[u] = "failed"
        /\ idx[u] = 3
        /\ Len(newVideos[u]) = 2

AnyFailed == \E u \in Uploads : pc[u] = "failed"

(* C8 as stated: isProcessing is true in every state after a failure. *)
C8_IndicatorStaysAfterFailure == AnyFailed => isProcessing

(* C8 amended: a failed upload stays failed and never resets the indicator;
   isProcessing goes from true to false only in the step in which another
   upload, one not failed, commits. *)
C8_IndicatorResetOnlyByCommit ==
    [][/\ \A u \in Uploads : pc[u] = "failed" => pc'[u] = "failed"
       /\ (isProcessing /\ ~isProcessing') =>
              \E u \in Uploads : pc[u] # "failed" /\ Commits(u)]_vars

C8_Witness ==
    \E u, v \in Uploads :
        /\ u < v
        /\ pc[u] = "failed"
        /\ pc[v] = "done"
        /\ Len(files[v]) >= 1
        /\ ~isProcessing

(* The file at position i of upload u has been converted successfully. *)
Converted(u, i) == i <= Len(newVideos[u])

Occurrences(r) == {k \in 1..Len(videos) : videos[k] = r}

Listed(u, i) == Cardinality(Occurrences(Record(u, i))) = 1

(* videos is kept as the tail of videos' *)
KeptAsTail ==
    /\ Len(videos') >= Len(videos)
    /\ SubSeq(videos', Len(videos') - Len(videos) + 1, Len(videos')) = videos

NoDuplicates == \A k \in 1..Len(videos) : Cardinality(Occurrences(videos[k])) = 1

(* C9 as stated: every successfully converted file eventually has exactly one
   record in the result list, whatever happens to the other files of its
   upload; records in the list are never removed, reordered or changed. *)
C9_EveryConvertedFileListed ==
    /\ \A u \in Uploads : \A i \in 1..MaxFiles :
           Converted(u, i) ~> Listed(u, i)
    /\ [][KeptAsTail]_vars
    /\ []NoDuplicates

AllOk(u) == \A i \in 1..Len(files[u]) : files[u][i] = "ok"

(* C9 amended: every file of an upload whose conversions all complete
   successfully eventually has exactly one record in the result list; records
   in the list are never removed, reordered or changed. *)
C9_FilesOfCommittedUploadListed ==
    /\ \A u \in Uploads :
           (Started(u) /\ AllOk(u)) ~>
               (pc[u] = "done" /\ \A i \in 1..Len(files[u]) : Listed(u, i))
    /\ [](\A u \in Uploads :
            pc[u] = "done" => \A i \in 1..Len(files[u]) : Listed(u, i))
    /\ [][KeptAsTail]_vars
    /\ []NoDuplicates

C9_Witness ==
    \E u, v \in Uploads :
        /\ u # v
        /\ pc[u] = "done"
        /\ Len(files[u]) >= 2
        /\ pc[v] = "failed"
        /\ Len(videos) = Len(files[u])
        /\ \A i \in 1..Len(files[u]) : Listed(u, i)

====
